---- MODULE Spec2Model ----
(***************************************************************************)
(* View-state router and derived view selection of the portfolio site      *)
(* (src/app/HomeClient.tsx), with the browser's session history and the    *)
(* fragment of the address as the environment, and the content loader      *)
(* (lib/posts: getAllPosts, getPostBySlug) with the content directory as   *)
(* its environment.                                                        *)
(*                                                                         *)
(* Strings are sequences of symbols.  A symbol is either the separator     *)
(* "/" or a word that contains no separator ("log", "home", "a", ...), so  *)
(* that `#log/a` is <<"log", "/", "a">> and String.split('/') is computed  *)
(* on the symbols as the code computes it on characters.  No word is the   *)
(* concatenation of other words.                                           *)
(***************************************************************************)
EXTENDS Integers, Sequences, FiniteSets, TLC

VARIABLES dir,        \* the content directory content/posts
          console,    \* lines written with console.error
          found,      \* outcome of the last getPostBySlug call
          posts,      \* the `posts` prop of HomeClient (output of getAllPosts)
          engine,     \* which Array.prototype.sort the browser provides
          route,      \* useState<Route>
          category,   \* useState category facet
          entries,    \* session history: the fragment of every entry
          idx,        \* position of the current entry in the session history
          pc,         \* what the event loop runs next
          rendered,   \* output of the last committed render
          trail,      \* views the user reached by clicks since the page load
          backs,      \* Back presses since the last click
          clock,      \* the time `new Date()` returns, in ticks since the epoch
          now,        \* useState `now`
          day,        \* useMemo `day` of the last committed render
          midnightTimeout,  \* when the pending setTimeout is due
          dailyInterval     \* when the pending setInterval is next due

vars == <<dir, console, found, posts, engine, route, category, entries,
          idx, pc, rendered, trail, backs, clock, now, day, midnightTimeout,
          dailyInterval>>

\* the loader's side of the state
loaderVars == <<dir, console, found>>

\* the day counter's side of the state
clockVars == <<clock, now, day, midnightTimeout, dailyInterval>>

(***************************************************************************)
(* Bounds of the model.                                                    *)
(***************************************************************************)
MaxPosts == 3
MaxDate == 3
MaxHist == 4
MaxClock == 8

(***************************************************************************)
(* Strings.                                                                *)
(***************************************************************************)
Sep == "/"

Word(w) == <<w>>

EmptyString == <<>>

\* index of the first separator of s at or after i, 0 when there is none
RECURSIVE indexOfSep(_, _)
indexOfSep(s, i) ==
    IF i > Len(s) THEN 0
    ELSE IF s[i] = Sep THEN i
    ELSE indexOfSep(s, i + 1)

\* hash.split('/')
RECURSIVE split(_)
split(s) ==
    LET k == indexOfSep(s, 1)
    IN  IF k = 0 THEN <<s>>
        ELSE <<SubSeq(s, 1, k - 1)>> \o split(SubSeq(s, k + 1, Len(s)))

ViewNames == {"home", "roadmap", "skills", "log", "manifesto"}

(***************************************************************************)
(* Route = 'home' | 'roadmap' | 'skills' | 'log' | { post: string } |       *)
(* 'manifesto'.  A string route has view = its name; an object route has   *)
(* view = "post" and carries the slug.                                     *)
(***************************************************************************)
StringRoute(name) == [view |-> name, post |-> EmptyString]

PostRoute(slug) == [view |-> "post", post |-> slug]

\* the handler returned without calling setRoute
NoUpdate == [view |-> "none", post |-> EmptyString]

\* as routeOfParts, without the test that parts[1] is non-empty
routeOfPartsAnySecond(parts) ==
    IF parts[1] = Word("log") /\ Len(parts) >= 2
    THEN PostRoute(parts[2])
    ELSE IF Len(parts[1]) = 1 /\ parts[1][1] \in ViewNames
    THEN StringRoute(parts[1][1])
    ELSE NoUpdate

\* `parts[0] === 'log' && parts[1]` ... `includes(parts[0])`: lines 42-47, 68-73
routeOfParts(parts) ==
    IF parts[1] = Word("log") /\ Len(parts) >= 2 /\ parts[2] # EmptyString
    THEN PostRoute(parts[2])
    ELSE IF Len(parts[1]) = 1 /\ parts[1][1] \in ViewNames
    THEN StringRoute(parts[1][1])
    ELSE NoUpdate

\* the mount effect: the route it passes to setRoute for the fragment `hash`
initialRoute(hash) ==
    IF hash = EmptyString THEN NoUpdate ELSE routeOfParts(split(hash))

\* handleHashChange: the route it passes to setRoute for the fragment `hash`
handleHashChange(hash) ==
    IF hash = EmptyString THEN StringRoute("home") ELSE routeOfParts(split(hash))

\* as fragmentOf, without the `log/` prefix of a post
fragmentOfNoPrefix(r) ==
    IF r.view = "post" THEN r.post ELSE Word(r.view)

\* as fragmentOf, with `post/` for the prefix of a post
fragmentOfPostPrefix(r) ==
    IF r.view = "post" THEN <<"post", Sep>> \o r.post ELSE Word(r.view)

\* the fragment the hash update effect pushes for a route
fragmentOf(r) ==
    IF r.view = "post" THEN <<"log", Sep>> \o r.post ELSE Word(r.view)

\* React re-renders (and re-runs effects keyed on route) unless Object.is
\* finds the new state identical: equal strings are identical, a new
\* { post } object never is.
rerenders(old, new) ==
    /\ new # NoUpdate
    /\ \/ new.view = "post"
       \/ new # old

\* the route shown once the page loaded with `fragment` has run its effects
routeAfterLoad(fragment) ==
    LET new == initialRoute(fragment)
    IN  IF rerenders(StringRoute("home"), new) THEN new ELSE StringRoute("home")

\* as firesHashChange, for a router that writes by assigning location.hash
firesHashChangeOnWrite(how, old, new) == old # new

\* whether the browser queues a hashchange event when the fragment goes from
\* old to new: history.pushState never does; a navigation or a traversal does
\* when the fragment differs
firesHashChange(how, old, new) == how # "pushState" /\ old # new

(***************************************************************************)
(* Posts.  A Post object is identified by `id`, the position of its file   *)
(* in the directory listing; two posts may carry the same slug, date and   *)
(* category.  A date is the number of its day: `YYYY-MM-DD` strings of     *)
(* the same form compare as their days do, and 0 stands for the empty      *)
(* string, which is smaller than every date.  readTime and category are    *)
(* strings, "" the empty one; slug, content and html are symbol sequences. *)
(***************************************************************************)
Categories == {"rust", "blockchain", "personal"}

Facets == {"all"} \cup Categories

null ==
    [id |-> 0, slug |-> EmptyString, date |-> 0, readTime |-> "",
     category |-> "none", tags |-> <<>>, content |-> EmptyString,
     html |-> EmptyString]

\* as compareFn, for an ascending order
compareFnAscending(a, b) == IF a.date > b.date THEN 1 ELSE 0 - 1

\* (a, b) => (a.date < b.date ? 1 : -1)
compareFn(a, b) == IF a.date < b.date THEN 1 ELSE 0 - 1

Reverse(s) == [i \in 1..Len(s) |-> s[Len(s) + 1 - i]]

InsertAt(s, k, x) == SubSeq(s, 1, k - 1) \o <<x>> \o SubSeq(s, k, Len(s))

(***************************************************************************)
(* Array.prototype.sort with that comparator.  The comparator answers -1   *)
(* for two posts of equal date in either order, so the order of equal      *)
(* dates is left to the engine.  Two engines are modelled:                 *)
(*   "binary": run detection followed by binary insertion (V8, arrays      *)
(*             shorter than 64; also the loader's engine, Node);           *)
(*   "linear": insertion by scanning from the right while the comparator   *)
(*             is positive.                                                *)
(***************************************************************************)
Engines == {"binary", "linear"}

\* last index of the run that starts at 1 (descending: strictly)
RECURSIVE runEnd(_, _, _)
runEnd(arr, i, descending) ==
    IF i > Len(arr) THEN Len(arr)
    ELSE LET order == compareFn(arr[i], arr[i - 1])
         IN  IF descending
             THEN IF order >= 0 THEN i - 1 ELSE runEnd(arr, i + 1, descending)
             ELSE IF order < 0 THEN i - 1 ELSE runEnd(arr, i + 1, descending)

\* binary search of the insertion point of pivot in arr[left+1 .. right]
RECURSIVE insertionPoint(_, _, _, _)
insertionPoint(arr, pivot, left, right) ==
    IF left >= right THEN left
    ELSE LET mid == left + ((right - left) \div 2)
         IN  IF compareFn(pivot, arr[mid + 1]) < 0
             THEN insertionPoint(arr, pivot, left, mid)
             ELSE insertionPoint(arr, pivot, mid + 1, right)

RECURSIVE binaryInsertionSort(_, _)
binaryInsertionSort(arr, start) ==
    IF start > Len(arr) THEN arr
    ELSE LET pivot == arr[start]
             left == insertionPoint(arr, pivot, 0, start - 1)
             moved == InsertAt(SubSeq(arr, 1, start - 1), left + 1, pivot)
                          \o SubSeq(arr, start + 1, Len(arr))
         IN  binaryInsertionSort(moved, start + 1)

sortBinary(arr) ==
    IF Len(arr) < 2 THEN arr
    ELSE LET descending == compareFn(arr[2], arr[1]) < 0
             run == runEnd(arr, 3, descending)
             made == IF descending
                     THEN Reverse(SubSeq(arr, 1, run)) \o SubSeq(arr, run + 1, Len(arr))
                     ELSE arr
         IN  binaryInsertionSort(made, run + 1)

\* the position item takes in the sorted prefix, scanning from its right end
RECURSIVE scanLeft(_, _, _)
scanLeft(sortedPrefix, item, j) ==
    IF j = 0 THEN 1
    ELSE IF compareFn(sortedPrefix[j], item) <= 0 THEN j + 1
    ELSE scanLeft(sortedPrefix, item, j - 1)

RECURSIVE linearInsertionSort(_, _)
linearInsertionSort(arr, i) ==
    IF i > Len(arr) THEN arr
    ELSE LET item == arr[i]
             prefix == SubSeq(arr, 1, i - 1)
             moved == InsertAt(prefix, scanLeft(prefix, item, i - 1), item)
                          \o SubSeq(arr, i + 1, Len(arr))
         IN  linearInsertionSort(moved, i + 1)

\* [...arr].sort((a, b) => (a.date < b.date ? 1 : -1)) on engine e
sortByDate(arr, e) ==
    IF e = "binary" THEN sortBinary(arr) ELSE linearInsertionSort(arr, 2)

\* Array.prototype.filter
RECURSIVE filterCategory(_, _)
filterCategory(arr, c) ==
    IF arr = <<>> THEN <<>>
    ELSE IF Head(arr).category = c
    THEN <<Head(arr)>> \o filterCategory(Tail(arr), c)
    ELSE filterCategory(Tail(arr), c)

\* Array.prototype.findIndex by slug, 1-based; 0 when no element matches
RECURSIVE findIndexFrom(_, _, _)
findIndexFrom(arr, slug, i) ==
    IF i > Len(arr) THEN 0
    ELSE IF arr[i].slug = slug THEN i
    ELSE findIndexFrom(arr, slug, i + 1)

findIndex(arr, slug) == findIndexFrom(arr, slug, 1)

\* Array.prototype.slice(0, n)
\* as slice, counting from the end of the list
sliceLast(arr, n) ==
    SubSeq(arr, IF Len(arr) < n THEN 1 ELSE Len(arr) - n + 1, Len(arr))

slice(arr, n) == SubSeq(arr, 1, IF Len(arr) < n THEN Len(arr) ELSE n)

(***************************************************************************)
(* Derived view selection: the three useMemo values and the sections the   *)
(* JSX renders.                                                            *)
(***************************************************************************)
\* as filteredPosts, without the filter on the facet
filteredPostsUnfiltered(ps, c, e) == sortByDate(ps, e)

filteredPosts(ps, c, e) ==
    LET sorted == sortByDate(ps, e)
    IN  IF c = "all" THEN sorted ELSE filterCategory(sorted, c)

\* as currentPost, falling back to the first post when no slug matches
currentPostOrFirst(r, ps) ==
    IF r.view = "post"
    THEN LET i == findIndex(ps, r.post)
         IN  IF i = 0 THEN (IF ps = <<>> THEN null ELSE ps[1]) ELSE ps[i]
    ELSE null

currentPost(r, ps) ==
    IF r.view = "post"
    THEN LET i == findIndex(ps, r.post)
         IN  IF i = 0 THEN null ELSE ps[i]
    ELSE null

\* as postNavigation, with the two pointers exchanged
postNavigationSwapped(cur, ps, e) ==
    IF cur = null THEN [prev |-> null, next |-> null]
    ELSE LET sorted == sortByDate(ps, e)
             currentIndex == findIndex(sorted, cur.slug)
         IN  [prev |-> IF currentIndex > 1
                       THEN sorted[currentIndex - 1] ELSE null,
              next |-> IF currentIndex < Len(sorted)
                       THEN sorted[currentIndex + 1] ELSE null]

\* as postNavigation, with the older end wrapping around to the newest
postNavigationWrapAround(cur, ps, e) ==
    IF cur = null THEN [prev |-> null, next |-> null]
    ELSE LET sorted == sortByDate(ps, e)
             currentIndex == findIndex(sorted, cur.slug)
         IN  [prev |-> IF currentIndex < Len(sorted)
                       THEN sorted[currentIndex + 1] ELSE sorted[1],
              next |-> IF currentIndex > 1
                       THEN sorted[currentIndex - 1] ELSE null]

\* as postNavigation, with the older end tested one position early
postNavigationShortEnd(cur, ps, e) ==
    IF cur = null THEN [prev |-> null, next |-> null]
    ELSE LET sorted == sortByDate(ps, e)
             currentIndex == findIndex(sorted, cur.slug)
         IN  [prev |-> IF currentIndex < Len(sorted) - 1
                       THEN sorted[currentIndex + 1] ELSE null,
              next |-> IF currentIndex > 1
                       THEN sorted[currentIndex - 1] ELSE null]

postNavigation(cur, ps, e) ==
    IF cur = null THEN [prev |-> null, next |-> null]
    ELSE LET sorted == sortByDate(ps, e)
             currentIndex == findIndex(sorted, cur.slug)
         IN  [prev |-> IF currentIndex < Len(sorted)
                       THEN sorted[currentIndex + 1] ELSE null,
              next |-> IF currentIndex > 1
                       THEN sorted[currentIndex - 1] ELSE null]

\* as sections, with the log section kept behind a post
sectionsLogBehindPost(r, cur) ==
    (IF r.view \in ViewNames THEN {r.view} ELSE {})
        \cup (IF cur # null THEN {"post", "log"} ELSE {})

\* `route === 'home' && ...`, ..., `currentPost && ...`
sections(r, cur) ==
    (IF r.view \in ViewNames THEN {r.view} ELSE {})
        \cup (IF cur # null THEN {"post"} ELSE {})

HomePreview == 3

Render(ps, r, c, e) ==
    LET cur == currentPost(r, ps)
        shown == filteredPosts(ps, c, e)
    IN  [filteredPosts |-> shown,
         currentPost |-> cur,
         postNavigation |-> postNavigation(cur, ps, e),
         sections |-> sections(r, cur),
         preview |-> slice(shown, HomePreview)]

\* as postsAfterRender, for memos that sort `posts` itself
postsAfterRenderInPlace(ps, e) == sortByDate(ps, e)

\* the `posts` prop once the memos have run: both sorts work on a copy
\* (`[...posts]`), and filter, find and findIndex write nothing
postsAfterRender(ps, e) == ps

NotRendered ==
    [filteredPosts |-> <<>>, currentPost |-> null,
     postNavigation |-> [prev |-> null, next |-> null],
     sections |-> {}, preview |-> <<>>]

(***************************************************************************)
(* The content loader.  A file of the directory is                         *)
(*   [name, fault, data, content]:                                         *)
(* its name (the last symbol is the extension), whether reading or parsing *)
(* it throws, the front matter as gray-matter returns it (a function on    *)
(* the keys that are present) and the markdown body.                       *)
(***************************************************************************)
Extensions == {".md", ".txt"}

Faults == {"none", "unreadable", "malformed"}

\* fileName.endsWith('.md')
endsWithMd(fileName) ==
    fileName # EmptyString /\ fileName[Len(fileName)] = ".md"

\* fileName.replace(/\.md$/, '')
stripMd(fileName) ==
    IF endsWithMd(fileName) THEN SubSeq(fileName, 1, Len(fileName) - 1)
    ELSE fileName

\* line breaks of a paragraph become <br> (breaks: true)
RECURSIVE breaks(_)
breaks(text) ==
    IF text = <<>> THEN <<>>
    ELSE <<IF Head(text) = "\n" THEN "<br>" ELSE Head(text)>> \o breaks(Tail(text))

\* marked(content): a heading line or a paragraph; nothing for an empty body
marked(content) ==
    IF content = EmptyString THEN EmptyString
    ELSE IF Head(content) = "#"
    THEN <<"<h1>">> \o Tail(content) \o <<"</h1>">>
    ELSE <<"<p>">> \o breaks(content) \o <<"</p>">>

\* the falsy values a front-matter string can take (an empty array is truthy)
falsy(key) ==
    CASE key = "slug" -> {EmptyString}
      [] key = "date" -> {0}
      [] key = "tags" -> {}
      [] OTHER -> {""}

\* `data.key || ...` takes data.key: the key is present and its value truthy
truthy(data, key) == key \in DOMAIN data /\ data[key] \notin falsy(key)

\* as toPost, with html left as the markdown source
toPostUnrendered(file, i) ==
    LET data == file.data
    IN  [id |-> i,
         slug |-> IF truthy(data, "slug") THEN data.slug ELSE stripMd(file.name),
         date |-> IF truthy(data, "date") THEN data.date ELSE 0,
         readTime |-> IF truthy(data, "readTime") THEN data.readTime ELSE "5 min",
         category |-> IF truthy(data, "category") THEN data.category ELSE "personal",
         tags |-> IF truthy(data, "tags") THEN data.tags ELSE <<>>,
         content |-> file.content,
         html |-> file.content]

\* as toPost, with the default of category taken for readTime too
toPostOneDefault(file, i) ==
    LET data == file.data
    IN  [id |-> i,
         slug |-> IF truthy(data, "slug") THEN data.slug ELSE stripMd(file.name),
         date |-> IF truthy(data, "date") THEN data.date ELSE 0,
         readTime |-> IF truthy(data, "readTime") THEN data.readTime ELSE "personal",
         category |-> IF truthy(data, "category") THEN data.category ELSE "personal",
         tags |-> IF truthy(data, "tags") THEN data.tags ELSE <<>>,
         content |-> file.content,
         html |-> marked(file.content)]

\* the callback of .map: the Post of the i-th directory entry
toPost(file, i) ==
    LET data == file.data
    IN  [id |-> i,
         slug |-> IF truthy(data, "slug") THEN data.slug ELSE stripMd(file.name),
         date |-> IF truthy(data, "date") THEN data.date ELSE 0,
         readTime |-> IF truthy(data, "readTime") THEN data.readTime ELSE "5 min",
         category |-> IF truthy(data, "category") THEN data.category ELSE "personal",
         tags |-> IF truthy(data, "tags") THEN data.tags ELSE <<>>,
         content |-> file.content,
         html |-> marked(file.content)]

\* .filter(endsWith('.md')).map(...) over the entries from the i-th on
RECURSIVE mapFiles(_, _)
mapFiles(files, i) ==
    IF i > Len(files) THEN <<>>
    ELSE IF endsWithMd(files[i].name)
    THEN <<toPost(files[i], i)>> \o mapFiles(files, i + 1)
    ELSE mapFiles(files, i + 1)

\* as throws, for a loader that passes over a file it cannot read or parse
throwsOnDirectoryOnly(d) == ~d.readable

\* readdirSync, readFileSync or matter throws
throws(d) ==
    \/ ~d.readable
    \/ \E i \in 1..Len(d.files) :
           endsWithMd(d.files[i].name) /\ d.files[i].fault # "none"

\* a call: what it returned (when it did not throw) and what it logged
Outcome(value, lines, error) ==
    [returned |-> value, logged |-> lines, threw |-> error]

\* as getAllPostsCall, without the catch block
getAllPostsCallNoCatch(d) ==
    IF throws(d)
    THEN Outcome(<<>>, <<>>, TRUE)
    ELSE Outcome(sortByDate(mapFiles(d.files, 1), "binary"), <<>>, FALSE)

\* as getAllPostsCall, without the filter on the extension
getAllPostsCallUnfiltered(d) ==
    IF throws(d)
    THEN Outcome(<<>>, <<"Error reading posts:">>, FALSE)
    ELSE Outcome(sortByDate([i \in 1..Len(d.files) |-> toPost(d.files[i], i)],
                            "binary"), <<>>, FALSE)

\* getAllPosts(): the try block, and the catch block when it throws
getAllPostsCall(d) ==
    IF throws(d)
    THEN Outcome(<<>>, <<"Error reading posts:">>, FALSE)
    ELSE Outcome(sortByDate(mapFiles(d.files, 1), "binary"), <<>>, FALSE)

getAllPosts(d) == getAllPostsCall(d).returned

\* Array.prototype.find by slug, `|| null`
find(arr, slug) ==
    LET i == findIndex(arr, slug)
    IN  IF i = 0 THEN null ELSE arr[i]

\* as getPostBySlugCall, returning the last match
getPostBySlugCallLast(d, slug) ==
    LET call == getAllPostsCall(d)
    IN  IF call.threw
        THEN Outcome(null, call.logged \o <<"Error getting post:">>, FALSE)
        ELSE Outcome(find(Reverse(call.returned), slug), call.logged, FALSE)

\* getPostBySlug(slug): the try block, and the catch block when it throws
getPostBySlugCall(d, slug) ==
    LET call == getAllPostsCall(d)
    IN  IF call.threw
        THEN Outcome(null, call.logged \o <<"Error getting post:">>, FALSE)
        ELSE Outcome(find(call.returned, slug), call.logged, FALSE)

getPostBySlug(d, slug) == getPostBySlugCall(d, slug).returned

(***************************************************************************)
(* Input sets.                                                             *)
(***************************************************************************)
Slugs == {Word("a"), Word("b")}

UnknownSlug == Word("zz")

SeqsUpTo(S, n) == UNION {[1..k -> S] : k \in 0..n}

\* the front matter d restricted to the keys of K
Restrict(d, K) == [key \in K |-> d[key]]

\* a markdown file that reads and parses, but for its name
MdFile(data) ==
    [ext |-> ".md", fault |-> "none", data |-> data, content |-> <<"text">>]

\* a directory listing: the i-th entry is named `<i><extension>`
Directory(listing, readable) ==
    [readable |-> readable,
     files |-> [i \in 1..Len(listing) |->
                   [name |-> <<ToString(i), listing[i].ext>>,
                    fault |-> listing[i].fault,
                    data |-> listing[i].data,
                    content |-> listing[i].content]]]

\* files that differ in slug and date, and files that differ in date and category
NavFiles ==
    {MdFile(d) : d \in [slug : Slugs, date : 1..MaxDate, category : {"rust"}]}

FacetFiles ==
    {MdFile(d) : d \in [slug : {Word("a")}, date : 1..MaxDate,
                        category : {"rust", "personal"}]}

\* files without a `slug` key: the slug of each is its own file name
StemFiles ==
    {MdFile(d) : d \in [date : 1..MaxDate, category : {"rust"}]}

\* the files of the lists that are longer than the preview of the home view
PreviewFiles ==
    {MdFile([slug |-> Word("a"), date |-> 1, category |-> "rust"]),
     MdFile([slug |-> Word("a"), date |-> 2, category |-> "rust"]),
     MdFile([slug |-> Word("a"), date |-> 2, category |-> "personal"])}

\* a single-post view over the first and the third, a list view over the
\* second and the fourth
RenderInputs ==
    ({Directory(listing, TRUE) : listing \in SeqsUpTo(NavFiles, MaxPosts)}
         \X {PostRoute(sl) : sl \in Slugs \cup {UnknownSlug}})
    \cup
    ({Directory(listing, TRUE) : listing \in SeqsUpTo(FacetFiles, MaxPosts)}
         \X {StringRoute("log"), StringRoute("home")})
    \cup
    ({Directory(listing, TRUE) : listing \in SeqsUpTo(StemFiles, MaxPosts)}
         \X {PostRoute(Word(ToString(i))) : i \in 1..MaxPosts})
    \cup
    ({Directory(listing, TRUE) :
          listing \in [1..(HomePreview + 1) -> PreviewFiles]}
         \X {StringRoute("home")})

\* the content directory of the router's runs
RouterFiles ==
    <<MdFile([slug |-> Word("a"), date |-> 3, category |-> "rust"]),
      MdFile([slug |-> Word("b"), date |-> 2, category |-> "personal"]),
      MdFile([slug |-> Word("c"), date |-> 2, category |-> "rust"])>>

RouterInputs == {Directory(RouterFiles, TRUE)}

\* files with or without a date and a slug of their own
DatedFiles ==
    {MdFile(Restrict(d, K)) :
         d \in [slug : {Word("a")}, date : 1..MaxDate],
         K \in {{}, {"date"}, {"slug", "date"}}}

\* files with each optional key absent, empty or set, and each kind of body
OptionalFiles ==
    {[ext |-> ".md", fault |-> "none", data |-> Restrict(d, K), content |-> c] :
         d \in [slug : {EmptyString, Word("a")}, readTime : {"", "8 min"},
                category : {"", "rust"}, tags : {<<>>, <<"t">>}],
         K \in SUBSET {"slug", "readTime", "category", "tags"},
         c \in {EmptyString, <<"text">>, <<"#", "title">>, <<"a", "\n", "b">>}}

\* markdown and other files, some of which cannot be read or parsed
FaultyFiles ==
    [ext : Extensions, fault : Faults, data : {[date |-> 1]},
     content : {<<"text">>}]

\* the content directories of the loader's runs
LoadInputs ==
    {Directory(listing, TRUE) : listing \in SeqsUpTo(DatedFiles, MaxPosts)}
        \cup {Directory(listing, TRUE) : listing \in SeqsUpTo(OptionalFiles, 1)}
        \cup {Directory(listing, readable) :
                  listing \in SeqsUpTo(FaultyFiles, MaxPosts),
                  readable \in BOOLEAN}

\* slugs getPostBySlug is called with
LookupSlugs == {Word("a"), Word("1"), UnknownSlug}

\* console.error lines kept
MaxLog == 2

\* getPostBySlug was not called yet
NoLookup == [slug |-> EmptyString, post |-> null, returned |-> FALSE]

\* the browser of the router's runs
RouterEngine == "binary"


\* fragments the page is loaded with
LoadFragments ==
    {EmptyString, Word("bogus"), Word("roadmap"),
     <<"log", Sep, "a">>, <<"log", Sep, "zz">>, <<"log", Sep, "a", Sep, "b">>,
     <<"log", Sep>>, <<"roadmap", Sep, "x">>}

\* fragments the user types into the address bar or follows as a link
TypedFragments ==
    {Word("bogus"), <<"roadmap", Sep, "x">>}

(***************************************************************************)
(* The browser's session history.                                          *)
(***************************************************************************)
hash == entries[idx]

(***************************************************************************)
(* Dates.  A Date is a number of ticks since the epoch; a day has          *)
(* TicksPerDay ticks and local time is UtcOffset ticks ahead of UTC.       *)
(***************************************************************************)
TicksPerDay == 2

UtcOffset == 1

\* getFullYear(), getMonth(), getDate(): the local calendar day of a Date
getDate(t) == (t + UtcOffset) \div TicksPerDay

\* Date.UTC(year, month, date): the epoch time of that day's midnight in UTC
DateUTC(d) == d * TicksPerDay

\* setHours(0, 0, 0, 0) on calendar day d: that day's local midnight
localMidnight(d) == d * TicksPerDay - UtcOffset

\* new Date(START_DATE + 'T00:00:00'): local midnight of the start date
START_DATE == 2

start == localMidnight(START_DATE)

max(a, b) == IF a < b THEN b ELSE a

\* as daysBetween, without the lower limit
daysBetweenUnclamped(a, b) ==
    LET ms == TicksPerDay
        ua == DateUTC(getDate(a))
        ub == DateUTC(getDate(b))
    IN  ((ub - ua) \div ms) + 1

daysBetween(a, b) ==
    LET ms == TicksPerDay
        ua == DateUTC(getDate(a))
        ub == DateUTC(getDate(b))
    IN  max(0, (ub - ua) \div ms) + 1

getMillisecondsUntilMidnight(t) == localMidnight(getDate(t) + 1) - t

\* no timer of that kind is pending
NoTimer == -1

\* the time of the page load in the runs that leave the clock alone
LoadTime == 0

\* the hooks of the day counter before the first render
InitTimers ==
    /\ now = clock
    /\ day = 0
    /\ midnightTimeout = NoTimer
    /\ dailyInterval = NoTimer

\* window.history.pushState(null, '', `#...`): drops the forward entries,
\* appends one entry and makes it current; fires no event
pushState(fragment) ==
    /\ entries' = Append(SubSeq(entries, 1, idx), fragment)
    /\ idx' = idx + 1

(***************************************************************************)
(* Initial state: the hooks hold their initial values, nothing is          *)
(* rendered yet.                                                           *)
(***************************************************************************)
InitHost ==
    /\ category = "all"
    /\ idx = 1
    /\ pc = "render"
    /\ rendered = NotRendered
    /\ trail = <<>>
    /\ backs = 0

\* the build has called getAllPosts() and HomeClient receives the result
Built ==
    /\ posts = getAllPosts(dir)
    /\ console = getAllPostsCall(dir).logged
    /\ found = NoLookup

Init ==
    /\ InitHost
    /\ engine = RouterEngine
    /\ dir \in RouterInputs
    /\ Built
    /\ route = StringRoute("home")
    /\ entries \in {<<f>> : f \in LoadFragments}
    /\ clock = LoadTime
    /\ InitTimers

\* inputs of the derived view selection drawn from bounded sets
InitRender ==
    /\ InitHost
    /\ engine \in Engines
    /\ \E input \in RenderInputs : dir = input[1] /\ route = input[2]
    /\ Built
    /\ entries = <<EmptyString>>
    /\ clock = LoadTime
    /\ InitTimers

\* the page is loaded at any time of the bounded calendar
InitClock ==
    /\ InitHost
    /\ engine = RouterEngine
    /\ dir \in RouterInputs
    /\ Built
    /\ route = StringRoute("home")
    /\ entries = <<EmptyString>>
    /\ clock \in 0..MaxClock
    /\ InitTimers

\* the build has not started: nothing is loaded
InitLoad ==
    /\ dir \in LoadInputs
    /\ console = <<>>
    /\ found = NoLookup
    /\ posts = <<>>
    /\ engine = RouterEngine
    /\ route = StringRoute("home")
    /\ category = "all"
    /\ entries = <<EmptyString>>
    /\ idx = 1
    /\ pc = "build"
    /\ rendered = NotRendered
    /\ trail = <<>>
    /\ backs = 0
    /\ clock = LoadTime
    /\ InitTimers

(***************************************************************************)
(* Steps of the build.                                                     *)
(***************************************************************************)
hostVars == <<engine, route, category, entries, idx, rendered, trail, backs>>

\* a page of the build runs `const posts = getAllPosts()`
Build ==
    /\ pc = "build"
    /\ LET call == getAllPostsCall(dir)
       IN  /\ posts' = call.returned
           /\ console' = console \o call.logged
           /\ pc' = IF call.threw THEN "crashed" ELSE "built"
    /\ UNCHANGED <<dir, found>>
    /\ UNCHANGED hostVars
    /\ UNCHANGED clockVars

\* a caller runs getPostBySlug(slug)
Lookup(slug) ==
    /\ pc \in {"build", "built"}
    /\ LET call == getPostBySlugCall(dir, slug)
       IN  /\ Len(console) + Len(call.logged) <= MaxLog
           /\ found' = [slug |-> slug, post |-> call.returned,
                        returned |-> ~call.threw]
           /\ console' = console \o call.logged
    /\ UNCHANGED <<dir, posts, pc>>
    /\ UNCHANGED hostVars
    /\ UNCHANGED clockVars

(***************************************************************************)
(* Steps of the host component.                                            *)
(***************************************************************************)
\* the first render commits
FirstRender ==
    /\ pc = "render"
    /\ rendered' = Render(posts, route, category, engine)
    /\ pc' = "mount"
    /\ posts' = postsAfterRender(posts, engine)
    /\ day' = daysBetween(start, now)
    /\ UNCHANGED <<engine, route, category, entries, idx, trail,
                   backs>>
    /\ UNCHANGED <<clock, now, midnightTimeout, dailyInterval>>
    /\ UNCHANGED loaderVars

\* the mount effects run in order (initial route, hash update with the
\* route of the first render, listener registration, timeout to the next
\* midnight); then the queued setRoute is applied and the component
\* re-renders
MountEffects ==
    /\ pc = "mount"
    /\ LET new == initialRoute(hash)
           changed == rerenders(route, new)
       IN  /\ pushState(fragmentOf(route))
           /\ route' = IF changed THEN new ELSE route
           /\ pc' = IF changed THEN "effect" ELSE "idle"
    /\ rendered' = Render(posts, route', category, engine)
    /\ trail' = <<route'>>
    /\ posts' = postsAfterRender(posts, engine)
    /\ midnightTimeout' = clock + getMillisecondsUntilMidnight(clock)
    /\ UNCHANGED <<engine, category, backs>>
    /\ UNCHANGED <<clock, now, day, dailyInterval>>
    /\ UNCHANGED loaderVars

\* the hash update effect runs after a render in which route changed
HashUpdateEffect ==
    /\ pc = "effect"
    /\ pushState(fragmentOf(route))
    /\ pc' = IF firesHashChange("pushState", hash, fragmentOf(route))
             THEN "hashchange" ELSE "idle"
    /\ UNCHANGED <<posts, engine, route, category, rendered, trail, backs>>
    /\ UNCHANGED loaderVars
    /\ UNCHANGED clockVars

\* routes the rendered page offers a click handler for
ClickTargets ==
    {StringRoute(n) : n \in {"home", "roadmap", "log", "skills"}}
        \cup (IF "home" \in rendered.sections
              THEN {StringRoute("manifesto")}
                       \cup {PostRoute(rendered.preview[i].slug) :
                                 i \in 1..Len(rendered.preview)}
              ELSE {})
        \cup (IF "log" \in rendered.sections
              THEN {PostRoute(rendered.filteredPosts[i].slug) :
                        i \in 1..Len(rendered.filteredPosts)}
              ELSE {})
        \cup (IF "post" \in rendered.sections
              THEN {PostRoute(p.slug) :
                        p \in {rendered.postNavigation.prev,
                               rendered.postNavigation.next} \ {null}}
              ELSE {})

\* as Click, for a handler that also resets the facet
ClickResetsFacet(new) ==
    /\ pc = "idle"
    /\ idx + 1 <= MaxHist
    /\ new \in ClickTargets
    /\ LET changed == rerenders(route, new)
       IN  /\ route' = IF changed THEN new ELSE route
           /\ pc' = IF changed THEN "effect" ELSE "idle"
           /\ trail' = IF ~changed THEN trail
                       ELSE IF trail # <<>> /\ backs = 0 /\ new # route
                       THEN Append(trail, new)
                       ELSE <<>>
           /\ backs' = IF changed THEN 0 ELSE backs
    /\ category' = "all"
    /\ rendered' = Render(posts, route', "all", engine)
    /\ UNCHANGED <<posts, engine, entries, idx>>
    /\ UNCHANGED loaderVars
    /\ UNCHANGED clockVars

\* a click handler calls setRoute(new)
Click(new) ==
    /\ pc = "idle"
    /\ idx + 1 <= MaxHist
    /\ new \in ClickTargets
    /\ LET changed == rerenders(route, new)
       IN  /\ route' = IF changed THEN new ELSE route
           /\ pc' = IF changed THEN "effect" ELSE "idle"
           /\ trail' = IF ~changed THEN trail
                       ELSE IF trail # <<>> /\ backs = 0 /\ new # route
                       THEN Append(trail, new)
                       ELSE <<>>
           /\ backs' = IF changed THEN 0 ELSE backs
    /\ rendered' = Render(posts, route', category, engine)
    /\ posts' = postsAfterRender(posts, engine)
    /\ UNCHANGED <<engine, category, entries, idx>>
    /\ UNCHANGED loaderVars
    /\ UNCHANGED clockVars

\* a filter button of LogList calls setCategory(c)
setCategory(c) ==
    /\ pc = "idle"
    /\ rendered.sections \cap {"home", "log"} # {}
    /\ category' = c
    /\ rendered' = Render(posts, route, c, engine)
    /\ posts' = postsAfterRender(posts, engine)
    /\ UNCHANGED <<engine, route, entries, idx, pc, trail, backs>>
    /\ UNCHANGED loaderVars
    /\ UNCHANGED clockVars

\* the user navigates to another fragment of the page (address bar or link):
\* the browser adds an entry and queues a hashchange event
Navigate(fragment) ==
    /\ pc = "idle"
    /\ idx + 2 <= MaxHist
    /\ fragment # hash
    /\ pushState(fragment)
    /\ pc' = IF firesHashChange("navigate", hash, fragment)
             THEN "hashchange" ELSE "idle"
    /\ trail' = <<>>
    /\ backs' = 0
    /\ UNCHANGED <<posts, engine, route, category, rendered>>
    /\ UNCHANGED loaderVars
    /\ UNCHANGED clockVars

\* history traversal: hashchange is queued when the fragment differs
Back ==
    /\ pc = "idle"
    /\ idx > 1
    /\ idx' = idx - 1
    /\ pc' = IF firesHashChange("traverse", hash, entries[idx - 1])
             THEN "hashchange" ELSE "idle"
    /\ IF backs + 1 < Len(trail)
       THEN backs' = backs + 1 /\ trail' = trail
       ELSE backs' = 0 /\ trail' = <<>>
    /\ UNCHANGED <<posts, engine, route, category, entries, rendered>>
    /\ UNCHANGED loaderVars
    /\ UNCHANGED clockVars

Forward ==
    /\ pc = "idle"
    /\ idx < Len(entries)
    /\ idx + 2 <= MaxHist
    /\ idx' = idx + 1
    /\ pc' = IF firesHashChange("traverse", hash, entries[idx + 1])
             THEN "hashchange" ELSE "idle"
    /\ trail' = <<>>
    /\ backs' = 0
    /\ UNCHANGED <<posts, engine, route, category, entries, rendered>>
    /\ UNCHANGED loaderVars
    /\ UNCHANGED clockVars

\* the hashchange listener runs
HashChange ==
    /\ pc = "hashchange"
    /\ LET new == handleHashChange(hash)
           changed == rerenders(route, new)
       IN  /\ route' = IF changed THEN new ELSE route
           /\ pc' = IF changed THEN "effect" ELSE "idle"
    /\ rendered' = Render(posts, route', category, engine)
    /\ posts' = postsAfterRender(posts, engine)
    /\ UNCHANGED <<engine, category, entries, idx, trail, backs>>
    /\ UNCHANGED loaderVars
    /\ UNCHANGED clockVars

Next ==
    \/ FirstRender
    \/ MountEffects
    \/ HashUpdateEffect
    \/ \E new \in ClickTargets : Click(new)
    \/ \E c \in Facets : setCategory(c)
    \/ \E fragment \in TypedFragments : Navigate(fragment)
    \/ Back
    \/ Forward
    \/ HashChange

Spec == Init /\ [][Next]_vars

NextRender ==
    \/ FirstRender
    \/ MountEffects
    \/ \E c \in Facets : setCategory(c)

SpecRender == InitRender /\ [][NextRender]_vars

\* time passes while the event loop is idle
Tick ==
    /\ pc \in {"idle", "unmounted"}
    /\ clock < MaxClock
    /\ clock' = clock + 1
    /\ UNCHANGED <<now, day, midnightTimeout, dailyInterval>>
    /\ UNCHANGED <<posts, pc>>
    /\ UNCHANGED hostVars
    /\ UNCHANGED loaderVars

\* the callback of setTimeout runs, at its due time or later: updateTime()
\* and the component re-renders, then setInterval; the function the
\* callback returns is dropped by the timer
MidnightTimeoutFires ==
    /\ pc = "idle"
    /\ midnightTimeout # NoTimer
    /\ clock >= midnightTimeout
    /\ now' = clock
    /\ day' = daysBetween(start, now')
    /\ midnightTimeout' = NoTimer
    /\ dailyInterval' = clock + TicksPerDay
    /\ UNCHANGED <<clock, posts, pc>>
    /\ UNCHANGED hostVars
    /\ UNCHANGED loaderVars

\* the callback of setInterval runs, at its due time or later: updateTime();
\* React drops the update of a component that is not mounted
DailyIntervalFires ==
    /\ pc \in {"idle", "unmounted"}
    /\ dailyInterval # NoTimer
    /\ clock >= dailyInterval
    /\ now' = IF pc = "idle" THEN clock ELSE now
    /\ day' = IF pc = "idle" THEN daysBetween(start, now') ELSE day
    /\ dailyInterval' = clock + TicksPerDay
    /\ UNCHANGED <<clock, midnightTimeout, posts, pc>>
    /\ UNCHANGED hostVars
    /\ UNCHANGED loaderVars

\* the component unmounts: the cleanup of the timer effect runs
Unmount ==
    /\ pc = "idle"
    /\ pc' = "unmounted"
    /\ midnightTimeout' = NoTimer
    /\ UNCHANGED <<clock, now, day, dailyInterval, posts>>
    /\ UNCHANGED hostVars
    /\ UNCHANGED loaderVars

NextClock ==
    \/ FirstRender
    \/ MountEffects
    \/ Tick
    \/ MidnightTimeoutFires
    \/ DailyIntervalFires
    \/ Unmount

SpecClock == InitClock /\ [][NextClock]_vars

NextLoad ==
    \/ Build
    \/ \E slug \in LookupSlugs : Lookup(slug)

SpecLoad == InitLoad /\ [][NextLoad]_vars

(***************************************************************************)
(* Properties.                                                             *)
(***************************************************************************)
Home == StringRoute("home")

Committed == pc # "render"

\* the full date-descending list the single-post view navigates in
Descending == sortByDate(posts, engine)

\* index in the date-descending list of the first post with the active slug
ActiveIndex ==
    CHOOSE i \in 1..Len(Descending) :
        /\ Descending[i].slug = rendered.currentPost.slug
        /\ \A j \in 1..(i - 1) : Descending[j].slug # rendered.currentPost.slug

HasActivePost == Committed /\ rendered.currentPost # null

\* C1 as stated: for an active post with neighbours, the "next" pointer is
\* the older neighbour (next index of the date-descending list) and the
\* "previous" pointer is the newer neighbour (previous index).
C1_NextIsOlder ==
    HasActivePost =>
        /\ ActiveIndex < Len(Descending) =>
               rendered.postNavigation.next = Descending[ActiveIndex + 1]
        /\ ActiveIndex > 1 =>
               rendered.postNavigation.prev = Descending[ActiveIndex - 1]

\* C1 amended: for an active post with neighbours, the "previous" pointer is
\* the older neighbour (next index of the date-descending list, a date not
\* after the active post's) and the "next" pointer is the newer neighbour
\* (previous index, a date not before the active post's).
C1_PrevIsOlderNextIsNewer ==
    HasActivePost =>
        /\ ActiveIndex < Len(Descending) =>
               /\ rendered.postNavigation.prev = Descending[ActiveIndex + 1]
               /\ rendered.postNavigation.prev.date <= rendered.currentPost.date
        /\ ActiveIndex > 1 =>
               /\ rendered.postNavigation.next = Descending[ActiveIndex - 1]
               /\ rendered.postNavigation.next.date >= rendered.currentPost.date

\* the middle post of three posts of different dates is active
C1_Witness ==
    /\ HasActivePost
    /\ Len(posts) = 3
    /\ rendered.postNavigation.prev # null
    /\ rendered.postNavigation.next # null
    /\ rendered.postNavigation.prev.date < rendered.currentPost.date
    /\ rendered.currentPost.date < rendered.postNavigation.next.date

\* the first segment of the fragment is none of the five view names
Unrecognized(fragment) ==
    fragment # EmptyString /\ split(fragment)[1] \notin {Word(n) : n \in ViewNames}

\* C2 as stated: when the fragment-change listener runs on an unrecognized
\* fragment, the state becomes home, whatever it was before.
C2_UnrecognizedChangeGoesHome ==
    [][(pc = "hashchange" /\ Unrecognized(hash)) => route' = Home]_vars

\* the encoding of a state: `#<name>` or `#log/<slug>`
EncodingOf(r) ==
    IF r.view = "post" THEN <<"log", "/">> \o r.post ELSE <<r.view>>

\* C3 as stated: whenever the router is idle, the fragment is the encoding
\* of the current state.
C3_IdleFragmentEncodesState == pc = "idle" => hash = EncodingOf(route)

\* C4 as stated: after clicks through the views trail[1..n], the k-th Back
\* press (k < n) displays trail[n - k].
C4_BackStepsOneView ==
    (pc = "idle" /\ trail # <<>> /\ backs >= 1) =>
        route = trail[Len(trail) - backs]

\* a Forward press is possible and the listener it fires sets the state to r
ForwardLeadsTo(r) ==
    /\ idx < Len(entries)
    /\ firesHashChange("traverse", hash, entries[idx + 1])
    /\ LET new == handleHashChange(entries[idx + 1])
       IN  (IF rerenders(route, new) THEN new ELSE route) = r

\* C5 as stated: once a Back press has taken the router from view B (the
\* last view of the trail) to the view A visited before it, a Forward press
\* returns the router to B.
C5_ForwardUndoesBack ==
    (/\ pc = "idle"
     /\ Len(trail) >= 2
     /\ backs = 1
     /\ route = trail[Len(trail) - 1]) => ForwardLeadsTo(trail[Len(trail)])

\* steps left before the router is idle again
Rank(p) ==
    CASE p = "idle" -> 0
      [] p = "effect" -> 1
      [] p = "hashchange" -> 2
      [] p = "mount" -> 3
      [] p = "render" -> 4

\* C6: a fragment write by the router (the step taken at "effect") never
\* queues the listener, and every step taken while the router is busy brings
\* it closer to idle: an event is followed by at most one run of the
\* listener and one fragment write.
C6_NoFeedbackLoop ==
    [][/\ pc = "effect" => pc' = "idle"
       /\ pc # "idle" => Rank(pc') < Rank(pc)]_vars

\* a click changed the view, the router wrote the fragment and is idle
C6_Witness ==
    /\ pc = "idle"
    /\ Len(trail) >= 2
    /\ backs = 0
    /\ idx = Len(entries)
    /\ hash = EncodingOf(route)

\* the state the claim gives for a page loaded with `fragment`
LoadedState(fragment) ==
    LET parts == split(fragment)
    IN  IF parts[1] = <<"log">> /\ Len(parts) >= 2 /\ parts[2] # <<>>
        THEN PostRoute(parts[2])
        ELSE IF \E n \in ViewNames : parts[1] = <<n>>
        THEN StringRoute(CHOOSE n \in ViewNames : parts[1] = <<n>>)
        ELSE Home

\* C7: the mount effects leave the state the claim gives for the fragment
\* the page was loaded with: post(second segment), the named view, or home.
C7_InitialStateFromFragment ==
    [][pc = "mount" => route' = LoadedState(hash)]_vars

\* the page was loaded with `#log/` and shows the log view
C7_Witness ==
    /\ pc = "idle"
    /\ idx = Len(entries)
    /\ entries[1] = <<"log", "/">>
    /\ Len(entries) = 3
    /\ route = StringRoute("log")

\* a parameterless view, or post(s) with s non-empty and free of "/"
RoundTrips(r) ==
    r.view = "post" =>
        (r.post # <<>> /\ \A i \in 1..Len(r.post) : r.post[i] # "/")

\* C8: for such a state, the fragment the router writes after the setter is
\* its encoding, and a page loaded with that fragment ends in the same state.
C8_RoundTrip ==
    [][(pc = "effect" /\ RoundTrips(route)) =>
           /\ hash' = EncodingOf(route)
           /\ routeAfterLoad(hash') = route]_vars

\* a click opened post "a" and the router wrote `#log/a`
C8_Witness ==
    /\ pc = "idle"
    /\ Len(trail) >= 2
    /\ backs = 0
    /\ route = PostRoute(<<"a">>)
    /\ hash = <<"log", "/", "a">>

\* the state is post(slug) and no loaded post has that slug
Unmatched(r) ==
    r.view = "post" /\ \A i \in 1..Len(posts) : posts[i].slug # r.post

\* C9: a post(slug) state whose slug matches no post is kept: the lookup is
\* absent and no section is rendered, and the write that follows the setter
\* makes the fragment `#log/<slug>` and leaves the state as it is.
C9_UnknownSlugAccepted ==
    /\ []((Committed /\ Unmatched(route)) =>
              /\ rendered.currentPost = null
              /\ rendered.sections = {})
    /\ [][(pc = "effect" /\ Unmatched(route)) =>
              /\ hash' = <<"log", "/">> \o route.post
              /\ route' = route
              /\ rendered' = rendered
              /\ pc' = "idle"]_vars

\* post("zz") was requested against the three loaded posts
C9_Witness ==
    /\ pc = "idle"
    /\ Len(posts) = 3
    /\ route = PostRoute(<<"zz">>)
    /\ hash = <<"log", "/", "zz">>
    /\ rendered.sections = {}

\* position of the post with identity `id` in the date-descending list
PositionOf(id) == CHOOSE i \in 1..Len(Descending) : Descending[i].id = id

Shown == rendered.filteredPosts

\* C10: the list shown for a category facet holds exactly the posts of that
\* category, once each, in the relative order of the date-descending list
\* (dates never increase); for `all` it is the whole date-descending list.
C10_FacetIsOrderedSubsequence ==
    Committed =>
        /\ {Shown[i].id : i \in 1..Len(Shown)} =
               {posts[i].id : i \in {j \in 1..Len(posts) :
                    category = "all" \/ posts[j].category = category}}
        /\ \A i \in 1..Len(Shown) : Shown[i] \in {posts[j] : j \in 1..Len(posts)}
        /\ \A i, j \in 1..Len(Shown) :
               i < j => /\ Shown[i].id # Shown[j].id
                        /\ Shown[i].date >= Shown[j].date
                        /\ PositionOf(Shown[i].id) < PositionOf(Shown[j].id)
        /\ category = "all" => Len(Shown) = Len(posts)

\* facet rust on three posts of which the newest and the oldest are rust
C10_Witness ==
    /\ pc = "idle"
    /\ category = "rust"
    /\ Len(posts) = 3
    /\ posts[1].date > posts[2].date /\ posts[2].date > posts[3].date
    /\ posts[2].category # "rust"
    /\ Shown = <<posts[1], posts[3]>>

(***************************************************************************)
(* Properties of the content loader.                                       *)
(***************************************************************************)
Loaded == pc = "built"

\* C11: the list getAllPosts returns is sorted non-increasing by date: no
\* post is followed by a post of a later date, whatever the files are.
C11_LoaderSortsByDateDescending ==
    Loaded => \A i \in 1..(Len(posts) - 1) : posts[i].date >= posts[i + 1].date

\* three files listed from the oldest to the newest were loaded
C11_Witness ==
    /\ Loaded
    /\ Len(posts) = 3
    /\ posts[1].id = 3 /\ posts[2].id = 2 /\ posts[3].id = 1
    /\ posts[1].date > posts[2].date /\ posts[2].date > posts[3].date

\* C12 as stated: posts of equal date come out of the loader's sort in the
\* order of their files in the directory listing.
C12_TiesKeepInputOrder ==
    Loaded =>
        \A i, j \in 1..Len(posts) :
            (i < j /\ posts[i].date = posts[j].date) => posts[i].id < posts[j].id

\* C13: when the content directory cannot be read, the call of getAllPosts
\* returns (it does not throw), its result is the empty sequence and it
\* logs one line.
C13_LoadFailsSoft ==
    [][(pc = "build" /\ pc' # "build" /\ ~dir.readable) =>
           /\ pc' = "built"
           /\ posts' = <<>>
           /\ console' = Append(console, "Error reading posts:")]_vars

\* an unreadable directory that holds two sound markdown files was loaded
C13_Witness ==
    /\ Loaded
    /\ ~dir.readable
    /\ Len(dir.files) = 2
    /\ \A i \in 1..2 : endsWithMd(dir.files[i].name) /\ dir.files[i].fault = "none"
    /\ posts = <<>>
    /\ console = <<"Error reading posts:">>

\* the file a loaded post was made from
FileOf(post) == dir.files[post.id]

Omits(post, key) == key \notin DOMAIN FileOf(post).data

\* the key is present in the front matter and its value is not empty
Sets(post, key) ==
    /\ key \in DOMAIN FileOf(post).data
    /\ FileOf(post).data[key] # (IF key \in {"slug", "tags"} THEN <<>> ELSE "")

\* C14: a post takes the default of every optional field its front matter
\* omits (category personal, tags empty, readTime `5 min`, slug the file
\* name without `.md`) and keeps every field that is present and non-empty.
C14_OptionalFieldsDefault ==
    Loaded =>
        \A i \in 1..Len(posts) :
            LET post == posts[i]
                name == FileOf(post).name
            IN  /\ Omits(post, "category") => post.category = "personal"
                /\ Omits(post, "tags") => post.tags = <<>>
                /\ Omits(post, "readTime") => post.readTime = "5 min"
                /\ Omits(post, "slug") => post.slug \o <<".md">> = name
                /\ \A key \in {"category", "tags", "readTime", "slug"} :
                       Sets(post, key) => post[key] = FileOf(post).data[key]

\* a file without front matter was loaded
C14_Witness ==
    /\ Loaded
    /\ Len(posts) = 1
    /\ DOMAIN FileOf(posts[1]).data = {}
    /\ posts[1].slug = <<"1">>
    /\ posts[1].readTime = "5 min"
    /\ posts[1].tags = <<>>

\* the list a load of the directory returns
LoadOrder == getAllPosts(dir)

\* C15: getPostBySlug returns (it never throws); its result is the first
\* post of the load order whose slug is the argument, and null when there is
\* none or when the load fails.
C15_LookupReturnsFirstMatch ==
    found # NoLookup =>
        LET order == LoadOrder
        IN  /\ found.returned
            /\ throws(dir) => found.post = null
            /\ (\A i \in 1..Len(order) : order[i].slug # found.slug)
                   => found.post = null
            /\ \A i \in 1..Len(order) :
                   (/\ order[i].slug = found.slug
                    /\ \A j \in 1..(i - 1) : order[j].slug # found.slug)
                       => found.post = order[i]

\* two posts carry the slug asked for and the newer one was returned
C15_Witness ==
    /\ found.returned
    /\ found.post # null
    /\ \E i, j \in 1..Len(LoadOrder) :
           /\ i < j
           /\ LoadOrder[i].slug = found.slug /\ LoadOrder[j].slug = found.slug
           /\ LoadOrder[i].date > LoadOrder[j].date
           /\ found.post = LoadOrder[i]

(***************************************************************************)
(* Properties of the derived view selection and of the two pieces of       *)
(* state.                                                                  *)
(***************************************************************************)
\* C16: in a single-post view the pointer to the newer neighbour is absent
\* exactly when the active post is first in the date-descending list, and
\* the pointer to the older neighbour exactly when it is last; so a post in
\* between has both and the post of a one-post list has neither.
C16_PointersAbsentAtEnds ==
    HasActivePost =>
        /\ rendered.postNavigation.next = null <=> ActiveIndex = 1
        /\ rendered.postNavigation.prev = null <=> ActiveIndex = Len(Descending)

\* the newest of three posts of different dates is active
C16_Witness ==
    /\ HasActivePost
    /\ Len(posts) = 3
    /\ posts[1].date > posts[2].date /\ posts[2].date > posts[3].date
    /\ rendered.currentPost = posts[1]
    /\ rendered.postNavigation.next = null
    /\ rendered.postNavigation.prev = posts[2]

\* C17: the facet is `all` until it is selected; a step that changes the
\* facet is taken while the router is idle and leaves the view state, the
\* fragment and the history as they are, so that no step that changes one
\* of these, and no step of the listener or of the effects, changes the
\* facet.
C17_FacetIndependentOfView ==
    [][/\ pc \in {"render", "mount"} => category = "all"
       /\ category' # category =>
              /\ pc = "idle" /\ pc' = "idle"
              /\ route' = route
              /\ entries' = entries
              /\ idx' = idx
       /\ (pc # "idle" \/ route' # route \/ hash' # hash) =>
              category' = category]_vars

\* the facet rust was selected on a list view and a post was opened since
C17_Witness ==
    /\ pc = "idle"
    /\ category = "rust"
    /\ route = PostRoute(<<"a">>)
    /\ hash = <<"log", "/", "a">>
    /\ idx >= 3

\* C18: no step of the host component changes the list it was given (the
\* posts, their order and their fields), nor the directory it was loaded
\* from.
C18_PostsReadOnly == [][posts' = posts /\ dir' = dir]_vars

\* a post with both pointers is shown under a facet, the sorted copy differs
\* from the list in the order of two posts of equal date
C18_Witness ==
    /\ pc = "idle"
    /\ category # "all"
    /\ rendered.currentPost # null
    /\ rendered.postNavigation.prev # null
    /\ rendered.postNavigation.next # null
    /\ Descending # posts
    /\ posts = getAllPosts(dir)

\* the state is post(slug) and a loaded post has that slug
Matched(r) ==
    r.view = "post" /\ \E i \in 1..Len(posts) : posts[i].slug = r.post

\* C19: at most one of the six sections is rendered; a parameterless view
\* renders its own section, and the post section is rendered exactly when
\* the state is post(slug) and the slug matches a loaded post.
C19_OneSectionRendered ==
    Committed =>
        /\ Cardinality(rendered.sections) <= 1
        /\ rendered.sections \subseteq {route.view}
        /\ route.view \in ViewNames => rendered.sections = {route.view}
        /\ "post" \in rendered.sections <=> Matched(route)

\* the post section of a loaded post is the only section rendered
C19_Witness ==
    /\ pc = "idle"
    /\ route = PostRoute(<<"b">>)
    /\ rendered.sections = {"post"}
    /\ rendered.currentPost.slug = <<"b">>

MdEntries == {i \in 1..Len(dir.files) : endsWithMd(dir.files[i].name)}

\* C21: when the load succeeds, the posts returned are made from the `.md`
\* entries of the directory, one post for each and none for another entry,
\* so their number is the number of `.md` entries.
C21_OnePostPerMarkdownFile ==
    (Loaded /\ ~throws(dir)) =>
        /\ {posts[i].id : i \in 1..Len(posts)} = MdEntries
        /\ Len(posts) = Cardinality(MdEntries)

\* a directory of two markdown files and one other file was loaded
C21_Witness ==
    /\ Loaded
    /\ Len(dir.files) = 3
    /\ Cardinality(MdEntries) = 2
    /\ ~endsWithMd(dir.files[2].name)
    /\ Len(posts) = 2

\* C22 as stated: the post displayed for post(slug) is the first post of the
\* loaded list with that slug, and the position the pointers are computed
\* from (the index found for the slug in the date-descending list) is the
\* position of that same post.
C22_DisplayedPostIsNavigated ==
    HasActivePost =>
        /\ \E i \in 1..Len(posts) :
               /\ posts[i] = rendered.currentPost
               /\ \A j \in 1..(i - 1) : posts[j].slug # route.post
        /\ Descending[ActiveIndex].id = rendered.currentPost.id

\* C23 as stated: a setter call with a value equal to the current state
\* schedules no fragment write and adds no history entry: the listener,
\* when the fragment parses to the current state, leaves the router idle,
\* and a click after which a write is pending has changed the state.
C23_SameValueWritesNothing ==
    [][/\ (pc = "hashchange" /\ handleHashChange(hash) = route) =>
              /\ pc' = "idle"
              /\ entries' = entries
              /\ idx' = idx
       /\ (pc = "idle" /\ pc' = "effect") => route' # route]_vars

\* the fragment names a view other than home, or a post
RecognizedNotHome(fragment) ==
    /\ fragment # EmptyString
    /\ ~Unrecognized(fragment)
    /\ LoadedState(fragment) # Home

\* C24 as stated: when the page is loaded with such a fragment, the mount
\* effects do not make the fragment `#home`, and they add no entry when a
\* further write is pending (start-up adds at most one entry).
C24_StartUpKeepsFragment ==
    [][(pc = "mount" /\ RecognizedNotHome(hash)) =>
           /\ hash' # <<"home">>
           /\ pc' = "effect" => Len(entries') = Len(entries)]_vars

\* C25: when reading or parsing a markdown file of a readable directory
\* throws, the call of getAllPosts returns (it does not throw) and its
\* result is the empty sequence.
C25_FileFaultEmptiesLoad ==
    [][(/\ pc = "build" /\ pc' # "build"
        /\ dir.readable
        /\ \E i \in MdEntries : dir.files[i].fault # "none") =>
           /\ pc' = "built"
           /\ posts' = <<>>]_vars

\* a sound markdown file and one that cannot be parsed were loaded
C25_Witness ==
    /\ Loaded
    /\ dir.readable
    /\ Len(dir.files) = 2
    /\ MdEntries = {1, 2}
    /\ dir.files[1].fault = "none"
    /\ dir.files[2].fault = "malformed"
    /\ posts = <<>>

\* C28: the state the mount effects leave for the fragment of the load is
\* the state a load with the fragment written for that state leaves;
\* `#log/a/b` gives post(a), for which `#log/a` is written.
C28_NormalisationIdempotent ==
    [][pc = "mount" =>
           /\ routeAfterLoad(fragmentOf(route')) = route'
           /\ hash = <<"log", "/", "a", "/", "b">> =>
                  /\ route' = PostRoute(<<"a">>)
                  /\ fragmentOf(route') = <<"log", "/", "a">>]_vars

\* the page was loaded with `#log/a/b`, shows post a and has written `#log/a`
C28_Witness ==
    /\ pc = "idle"
    /\ entries[1] = <<"log", "/", "a", "/", "b">>
    /\ Len(entries) = 3
    /\ idx = 3
    /\ hash = <<"log", "/", "a">>
    /\ route = PostRoute(<<"a">>)

\* C27: in a list of posts with pairwise different slugs, one post is the
\* older-neighbour pointer of the displayed post exactly when the displayed
\* post is the newer-neighbour pointer of that one, and likewise the other
\* way round; neither pointer of the displayed post is the displayed post.
UniqueSlugs ==
    \A i, j \in 1..Len(posts) : posts[i].slug = posts[j].slug => i = j

C27_PointersAreSymmetric ==
    (HasActivePost /\ UniqueSlugs) =>
        LET A == rendered.currentPost
            nav == rendered.postNavigation
        IN  /\ nav.prev # A /\ nav.next # A
            /\ \A i \in 1..Len(posts) :
                   LET B == posts[i]
                       navB == postNavigation(B, posts, engine)
                   IN  /\ nav.prev = B <=> navB.next = A
                       /\ nav.next = B <=> navB.prev = A

\* the middle one of three posts with different slugs is displayed, two of
\* them of the same date
C27_Witness ==
    /\ HasActivePost /\ UniqueSlugs
    /\ Len(posts) = 3
    /\ \E i, j \in 1..3 : i # j /\ posts[i].date = posts[j].date
    /\ rendered.postNavigation.prev # null
    /\ rendered.postNavigation.next # null
    /\ postNavigation(rendered.postNavigation.prev, posts, engine).next
           = rendered.currentPost

\* C29: the preview of the home view holds the first min(3, n) posts of the
\* list the log view shows for the same facet, in the same order, n being
\* the length of that list; that list is the date-descending list filtered
\* by the facet.
C29_PreviewIsFirstThree ==
    (Committed /\ "home" \in rendered.sections) =>
        LET n == Len(Shown)
            logView == Render(posts, StringRoute("log"), category, engine)
        IN  /\ Len(rendered.preview) = (IF n < 3 THEN n ELSE 3)
            /\ \A i \in 1..Len(rendered.preview) :
                   rendered.preview[i] = logView.filteredPosts[i]
            /\ Shown = logView.filteredPosts
            /\ \A i \in 1..Len(rendered.preview) :
                   /\ category = "all" \/ rendered.preview[i].category = category
                   /\ \A j \in 1..i :
                          rendered.preview[j].date >= rendered.preview[i].date

\* four posts pass the facet and the preview shows three of them
C29_Witness ==
    /\ Committed /\ "home" \in rendered.sections
    /\ Len(Shown) = 4
    /\ Len(rendered.preview) = 3
    /\ rendered.preview[3] = Shown[3]
    /\ Shown[4].date < Shown[1].date

\* C26: once the component is unmounted no timer of it is pending, neither
\* the timeout to midnight nor the 24-hour interval, whether it was
\* unmounted before the first midnight or after it.
C26_NoTimerAfterUnmount ==
    pc = "unmounted" =>
        /\ midnightTimeout = NoTimer
        /\ dailyInterval = NoTimer

\* C30: the day counter is at least 1; it is 1 when the calendar day of
\* `now` is the start day or an earlier one, and otherwise the number of
\* calendar days from the start day to that day plus 1; it is not smaller
\* for any later `now`.
CalendarDay(t) == CHOOSE d \in 0..(MaxClock + 1) :
                      /\ localMidnight(d) <= t
                      /\ t < localMidnight(d + 1)

C30_DayCounter ==
    Committed =>
        /\ day >= 1
        /\ CalendarDay(now) <= CalendarDay(start) => day = 1
        /\ CalendarDay(now) > CalendarDay(start) =>
               day = CalendarDay(now) - CalendarDay(start) + 1
        /\ \A later \in now..MaxClock : daysBetween(start, later) >= day

\* the counter was updated by a timer two days after the start day, on a
\* page loaded before the start day
C30_Witness ==
    /\ pc = "idle"
    /\ dailyInterval # NoTimer
    /\ CalendarDay(now) = CalendarDay(start) + 2
    /\ day = 3

====
